---- MODULE Spec2Model ----
(***************************************************************************)
(* Photomatic: the daily photo index (build_cache), the per-session        *)
(* selection (pick_file, random_image), the derived-image cache            *)
(* (resize_and_compress) and its eviction (prune_cache), as one state      *)
(* machine.  Request handlers run on the worker threads of the Flask       *)
(* development server (app.run, threaded), so a handler is a sequence of   *)
(* steps that interleave with the steps of the other worker.               *)
(***************************************************************************)
EXTENDS Integers, Sequences, FiniteSets, TLC

\* ------------------------------------------------------------------------
\* Bounds of the model
\* ------------------------------------------------------------------------
MaxDay == 2
MaxLimit == 2
MaxCycle == 2
MaxCount == 3
MaxLog == 4
MaxTokens == 2
MaxFields == 2
MaxSetting == 2
MaxDepth == 2

Threads == {"t1", "t2"}
Sessions == {"s1", "s2"}

\* Python's None where a date is expected (G.CACHE_DATE, get_photo_date).
NoDate == 0
\* get_line's / pick_file's None where a path is expected.
NoPath == "none"
\* A line of a sequence file that holds no usable path: the NUL-filled hole a
\* write beyond the end of a truncated file leaves behind.
Garbage == "garbage"

\* ------------------------------------------------------------------------
\* The photos that may lie under PHOTO_ROOT, in os.walk discovery order
\* ------------------------------------------------------------------------
FullWalk == <<"p1", "p3", "p4", "p2">>
Paths == {FullWalk[i] : i \in 1..Len(FullWalk)} \cup {"p5"}

\* What the date resolver and the decoder see of each file: the date in the
\* base name, the first date-bearing EXIF field, the modification date
\* (NoDate: none / unreadable), and whether the file can be opened at all.
\* p4 is a dangling link: listed by the walk, unreadable.  p5 is a file that
\* is named for day 1 and cannot be decoded.
PhotoInfo ==
    [p \in Paths |->
        CASE p = "p1" -> [fname |-> 1, exif |-> NoDate, mtime |-> 2, readable |-> TRUE]
          [] p = "p2" -> [fname |-> NoDate, exif |-> 1, mtime |-> 2, readable |-> TRUE]
          [] p = "p3" -> [fname |-> NoDate, exif |-> NoDate, mtime |-> 2, readable |-> TRUE]
          [] p = "p5" -> [fname |-> 1, exif |-> NoDate, mtime |-> 2, readable |-> FALSE]
          [] OTHER    -> [fname |-> NoDate, exif |-> NoDate, mtime |-> NoDate, readable |-> FALSE]]

\* get_photo_date: file name, then EXIF, then mtime, else None.
get_photo_date(p) ==
    LET f == PhotoInfo[p] IN
    IF f.fname # NoDate THEN f.fname
    ELSE IF f.readable /\ f.exif # NoDate THEN f.exif
    ELSE f.mtime

\* ------------------------------------------------------------------------
\* The date resolver in detail: parse_date_from_filename and get_photo_date
\* on a file given by its base name (a sequence of characters), what
\* Image.open and exif.items() yield for it, and its modification date.
\* PhotoInfo above sums up, for the four photos of the collection, what each
\* tier yields.
\* ------------------------------------------------------------------------
\* A datetime.date; None where the resolver has no date.
Date(y, m, d) == [y |-> y, m |-> m, d |-> d]
None == Date(0, 0, 0)

DigitChars == {"0", "1", "2", "3", "4", "5", "6", "7", "8", "9"}
DigitVal(c) ==
    CASE c = "0" -> 0 [] c = "1" -> 1 [] c = "2" -> 2 [] c = "3" -> 3
      [] c = "4" -> 4 [] c = "5" -> 5 [] c = "6" -> 6 [] c = "7" -> 7
      [] c = "8" -> 8 [] c = "9" -> 9

\* int(m.group(k)) for the group of n digits that starts at position i.
RECURSIVE IntAt(_, _, _)
IntAt(s, i, n) ==
    IF n = 0 THEN 0 ELSE IntAt(s, i, n - 1) * 10 + DigitVal(s[i + n - 1])

\* datetime.date(y, m, d) raises ValueError unless the date exists.
IsLeap(y) == (y % 4 = 0 /\ y % 100 # 0) \/ y % 400 = 0
DaysIn(y, m) ==
    IF m = 2 THEN (IF IsLeap(y) THEN 29 ELSE 28)
    ELSE IF m \in {4, 6, 9, 11} THEN 30 ELSE 31
IsDate(y, m, d) == y \in 1..9999 /\ m \in 1..12 /\ d \in 1..DaysIn(y, m)

\* \d{n} at position i.
DigitsAt(s, i, n) == i + n - 1 <= Len(s) /\ \A k \in i..(i + n - 1) : s[k] \in DigitChars
\* Where (\d{4})(\d{2})(\d{2}), resp. (\d{4})-(\d{2})-(\d{2}), matches.
MatchesPlain(s) == {i \in 1..Len(s) : DigitsAt(s, i, 8)}
MatchesHyphen(s) ==
    {i \in 1..Len(s) : /\ DigitsAt(s, i, 4)
                       /\ i + 9 <= Len(s)
                       /\ s[i + 4] = "-"
                       /\ DigitsAt(s, i + 5, 2)
                       /\ s[i + 7] = "-"
                       /\ DigitsAt(s, i + 8, 2)}
\* re.search: the leftmost match.
Leftmost(S) == CHOOSE i \in S : \A j \in S : i <= j

\* The date of the three groups, None when datetime.date raises ValueError.
DateOfGroups(y, m, d) == IF IsDate(y, m, d) THEN Date(y, m, d) ELSE None

\* parse_date_from_filename(filename)
parse_date_from_filename(s) ==
    LET m1 == MatchesPlain(s)
        d1 == IF m1 = {} THEN None
              ELSE LET i == Leftmost(m1)
                   IN DateOfGroups(IntAt(s, i, 4), IntAt(s, i + 4, 2), IntAt(s, i + 6, 2))
        m2 == MatchesHyphen(s)
        d2 == IF m2 = {} THEN None
              ELSE LET i == Leftmost(m2)
                   IN DateOfGroups(IntAt(s, i, 4), IntAt(s, i + 5, 2), IntAt(s, i + 8, 2))
    IN IF d1 # None THEN d1 ELSE d2

\* How a call ends: with a value, or with an exception that nothing in
\* get_photo_date catches.
Returns(v) == [exc |-> "none", value |-> v]
Raises(e) == [exc |-> e, value |-> None]

\* The three tags get_photo_date looks for.
DateTags == {"DateTimeOriginal", "DateTimeDigitized", "DateTime"}

\* Lines 96-103, the loop over exif.items() in the order the mapping yields
\* them: the first wanted tag whose value strptime parses ends the call; a
\* string it cannot parse (ValueError) is logged and the loop goes on; a value
\* that is not a string makes strptime raise TypeError.  An item is
\* [tag, text, date]: the tag name, whether the value is a str, and the date
\* strptime gets from it (None: ValueError).
RECURSIVE ExifLoop(_)
ExifLoop(items) ==
    IF items = <<>> THEN Returns(None)
    ELSE LET it == Head(items) IN
         IF it.tag \notin DateTags THEN ExifLoop(Tail(items))
         ELSE IF ~it.text THEN Raises("TypeError")
         ELSE IF it.date # None THEN Returns(it.date)
         ELSE ExifLoop(Tail(items))

\* A resolver that asks the metadata and the modification time first and the
\* file name last: what get_photo_date must differ from.
GetPhotoDateNameLast(f) ==
    LET e == IF f.opens THEN ExifLoop(f.exif) ELSE Returns(None) IN
    IF e.exc # "none" \/ e.value # None THEN e
    ELSE IF f.mtime # None THEN Returns(f.mtime)
    ELSE Returns(parse_date_from_filename(f.name))

\* get_photo_date(path) for the file f = [name, opens, exif, mtime]: opens
\* is whether Image.open and getexif succeed (else UnidentifiedImageError or
\* OSError, caught), mtime the date of os.path.getmtime (None: OSError,
\* caught).
GetPhotoDate(f) ==
    LET fd == parse_date_from_filename(f.name) IN
    IF fd # None THEN Returns(fd)
    ELSE LET e == IF f.opens THEN ExifLoop(f.exif) ELSE Returns(None) IN
         IF e.exc # "none" \/ e.value # None THEN e
         ELSE Returns(f.mtime)

\* ------------------------------------------------------------------------
\* config_manager: DEFAULT_CONFIG and load_config
\* ------------------------------------------------------------------------
\* A dict is a function on its keys.
EmptyDict == [k \in {} |-> 0]

DEFAULT_CONFIG ==
    [image |-> [max_width |-> 2080, max_height |-> 768],
     cache |-> [limit |-> 2000, same_day_cycle |-> 100]]

\* Lines 44-48: the file's value for every key of a known section whose
\* value in the file is a dict, the value config holds otherwise.  A section
\* of the file is [isdict, items]: whether yaml gave a dict for it, and the
\* dict.
MergeConfig(config, file_cfg) ==
    [section \in DOMAIN config |->
        IF section \in DOMAIN file_cfg /\ file_cfg[section].isdict
        THEN [key \in DOMAIN config[section] |->
                IF key \in DOMAIN file_cfg[section].items
                THEN file_cfg[section].items[key]
                ELSE config[section][key]]
        ELSE config[section]]

\* A load that stops at the copy of line 35, which shares the section dicts
\* with DEFAULT_CONFIG: what load_config must differ from.
load_config_shared(d, file) ==
    IF ~file.exists \/ file.top = "empty"
    THEN [exc |-> "none", value |-> d, defaults |-> d]
    ELSE IF file.top = "invalid"
    THEN [exc |-> "YAMLError", value |-> EmptyDict, defaults |-> d]
    ELSE IF file.top = "other"
    THEN [exc |-> "AttributeError", value |-> EmptyDict, defaults |-> d]
    ELSE [exc |-> "none", value |-> MergeConfig(d, file.sections),
          defaults |-> MergeConfig(d, file.sections)]

\* load_config(path) on a file [exists, top, sections]: top is what
\* yaml.safe_load returns, "empty" for None or another falsy value (replaced
\* by {} at line 42), "mapping" for a dict, "other" for a list, a string or a
\* number, which has no items(); "invalid" when safe_load raises.  Yields how
\* the call ends and what DEFAULT_CONFIG holds afterwards: line 38 copies
\* every section, so the writes of line 48 go to the copies.
load_config(d, file) ==
    LET config == [section \in DOMAIN d |-> d[section]] IN
    IF ~file.exists THEN [exc |-> "none", value |-> config, defaults |-> d]
    ELSE IF file.top = "invalid"
    THEN [exc |-> "YAMLError", value |-> EmptyDict, defaults |-> d]
    ELSE IF file.top = "empty" THEN [exc |-> "none", value |-> config, defaults |-> d]
    ELSE IF file.top = "other"
    THEN [exc |-> "AttributeError", value |-> EmptyDict, defaults |-> d]
    ELSE [exc |-> "none", value |-> MergeConfig(config, file.sections), defaults |-> d]

\* ------------------------------------------------------------------------
\* build_cache's walk: which files of the tree are indexed.  Names and paths
\* are sequences of characters.
\* ------------------------------------------------------------------------
\* str.lower() on the characters the names are written with.
LowerChar(c) ==
    CASE c = "A" -> "a" [] c = "C" -> "c" [] c = "E" -> "e" [] c = "G" -> "g"
      [] c = "H" -> "h" [] c = "I" -> "i" [] c = "J" -> "j" [] c = "P" -> "p"
      [] c = "T" -> "t" [] OTHER -> c
Lower(s) == [i \in 1..Len(s) |-> LowerChar(s[i])]

\* `sub in s` and s.endswith(sub).
OccursAt(sub, s, i) ==
    i + Len(sub) - 1 <= Len(s) /\ \A k \in 1..Len(sub) : s[i + k - 1] = sub[k]
IsIn(sub, s) == \E i \in 1..Len(s) : OccursAt(sub, s, i)
EndsWith(s, sub) == Len(sub) <= Len(s) /\ OccursAt(sub, s, Len(s) - Len(sub) + 1)

\* Lines 136-137.
extensions ==
    {<<".", "j", "p", "g">>, <<".", "j", "p", "e", "g">>, <<".", "p", "n", "g">>,
     <<".", "g", "i", "f">>, <<".", "w", "e", "b", "p">>, <<".", "h", "e", "i", "c">>}
ignore_dirs ==
    {<<"t", "h", "u", "m", "b", "n", "a", "i", "l", "s">>,
     <<"c", "a", "c", "h", "e">>,
     <<".", "g", "i", "t">>,
     <<"_", "_", "p", "y", "c", "a", "c", "h", "e", "_", "_">>,
     <<"@", "_", "_", "t", "h", "u", "m", "b">>}

\* os.path.join(root, d): the path of directory d under root.
RECURSIVE JoinPath(_, _)
JoinPath(root, dirs) ==
    IF dirs = <<>> THEN root
    ELSE JoinPath(root \o <<"/">> \o Head(dirs), Tail(dirs))

\* Lines 144-150 for the file `file` in the directory reached from base_dir
\* `base` (a path) through the directories `dirs`: os.walk yields root =
\* base/dirs.../, the directory is skipped when an ignore name occurs in
\* root.lower(), and the file is taken when its lower-cased name ends with an
\* extension.  os.walk reaches every directory: the skip of line 146 does not
\* prune the walk.
IsSkipped(root) == \E ign \in ignore_dirs : IsIn(ign, Lower(root))
IsSupported(fn) == \E ext \in extensions : EndsWith(Lower(fn), ext)
IsIndexed(base, dirs, fn) == ~IsSkipped(JoinPath(base, dirs)) /\ IsSupported(fn)

\* hashlib.md5(path.encode()).hexdigest(): one key per path.
Md5(p) ==
    CASE p = "p1" -> "h1"
      [] p = "p2" -> "h2"
      [] p = "p3" -> "h3"
      [] p = "p4" -> "h4"
      [] p = "p5" -> "h5"
      [] OTHER    -> "h0"

\* A key left in the store by an earlier run for a photo that is gone.
ForeignKey == "hx"
Keys == {Md5(p) : p \in Paths} \cup {ForeignKey}

\* The overlay and quality the /random route passes for every path.
RouteOverlay == "date+name"
RouteQuality == 50
\* The (overlay, quality) pairs a direct caller passes.
CallArgs == {<<RouteOverlay, RouteQuality>>, <<"none", 75>>}

\* The JPEG bytes the miss path produces: a function of the source and of
\* the overlay and quality of that call.
Encode(p, ov, q) == [src |-> p, ov |-> ov, q |-> q]
\* What an earlier run may have left as an entry's bytes.
OldBytes == [src |-> "old", ov |-> "none", q |-> 75]
NoBytes == [src |-> "none", ov |-> "none", q |-> 0]

\* ------------------------------------------------------------------------
\* State
\* ------------------------------------------------------------------------
VARIABLES
    walk,         \* the photos under PHOTO_ROOT, as os.walk lists them
    today,        \* datetime.date.today()
    cacheDate,    \* G.CACHE_DATE
    building,     \* G.BUILDING_CACHE
    sameDayKeys,  \* G.SAME_DAY_KEYS (membership is all that is read)
    cacheCount,   \* G.CACHE_COUNT
    cacheLimit,   \* G.CACHE_LIMIT
    sameDayCycle, \* G.SAME_DAY_CYCLE
    allFile,      \* cache_all.txt: [exists, lines]
    sameFile,     \* cache_same_day.txt: [exists, lines]
    store,        \* instance/cache/photos: entries [key, bytes], oldest mtime first
    cookie,       \* the session cookie each client holds
    pc,           \* where each worker thread is in its handler
    loc,          \* the locals of the handler each worker runs
    clients,      \* the sessions that send requests
    flaky,        \* the files whose os.remove may raise OSError
    traced,       \* the sessions whose responses are recorded in log
    log,          \* per traced session, the first MaxLog responses it got
    ret,          \* how the latest direct call ended
    lastPrune,    \* what the prune_cache pass of the latest direct call did
    photo,        \* the file get_photo_date is called for on its own
    resolved,     \* how that call ended
    configFile,   \* config.yaml as load_config finds it
    defaults,     \* config_manager.DEFAULT_CONFIG, the module-level dict
    loaded,       \* how load_config ended
    found,        \* a file os.walk meets under base_dir: [base, dirs, file]
    indexed       \* whether build_cache wrote its path to a sequence file

vars == <<walk, today, cacheDate, building, sameDayKeys, cacheCount, cacheLimit,
          sameDayCycle, allFile, sameFile, store, cookie, pc, loc, clients,
          flaky, traced, log, ret, lastPrune, photo, resolved, configFile,
          defaults, loaded, found, indexed>>

indexVars == <<cacheDate, building, sameDayKeys, allFile, sameFile>>
\* The input and the outcome of a function examined on its own: no handler
\* touches them.
probeVars == <<photo, resolved, configFile, defaults, loaded, found, indexed>>
configVars == <<walk, cacheLimit, sameDayCycle, clients, flaky, traced, probeVars>>

MissingFile == [exists |-> FALSE, lines |-> <<>>]
EmptyFile == [exists |-> TRUE, lines |-> <<>>]

\* session.py reset_on_first_visit: what a session holds after its first
\* request passed before_request; a cookie-less client holds NoSession.
NoSession == [init |-> FALSE, pdate |-> NoDate, idx |-> 0, served |-> 0]
FreshSession == [init |-> TRUE, pdate |-> NoDate, idx |-> 0, served |-> 0]

NoLocals ==
    [sid |-> "s1", sess |-> NoSession, modified |-> FALSE, today |-> NoDate,
     bi |-> 0, btoday |-> NoDate, path |-> NoPath, ov |-> "none", q |-> 0,
     buf |-> NoBytes, kind |-> "none"]

\* No direct call has ended yet.  Of a call: the function, 200 for a return
\* and 500 for an exception, its arguments, the bytes it returned, and whether
\* it was a resize_and_compress that came straight after a successful one for
\* the same path, or a prune_cache that came straight after a prune_cache.
NoRet == [op |-> "none", status |-> 0, path |-> NoPath, ov |-> "none", q |-> 0,
          bytes |-> NoBytes, again |-> FALSE]
\* No pass yet.  Of a pass: the store (keys, oldest first), the protected keys
\* and the counter it started with, whether it got past the limit test, the
\* keys it removed in order, the keys whose removal failed, the counter it
\* left.
NoPrune == [called |-> FALSE, ran |-> FALSE, before |-> <<>>, prot |-> {},
            count |-> 0, deleted |-> <<>>, failed |-> {}, after |-> 0]

\* ------------------------------------------------------------------------
\* Files and the locals of a handler
\* ------------------------------------------------------------------------
\* get_line(filepath, idx): the idx-th line (0-based), None past the end or
\* when the file is missing.
get_line(f, i) ==
    IF f.exists /\ i < Len(f.lines) THEN f.lines[i + 1] ELSE NoPath

\* count_lines(filepath): 0 when the file is missing.
count_lines(f) == IF f.exists THEN Len(f.lines) ELSE 0

\* f.write(path + "\n") through a handle opened with "w": the line lands at
\* the writer's own offset `off` (the lines it wrote before).  Beyond the end
\* of a file another writer truncated, the gap reads back as garbage; into a
\* file that was unlinked meanwhile, nothing becomes visible.
WriteAt(f, off, line) ==
    IF ~f.exists THEN f
    ELSE IF off < Len(f.lines) THEN [f EXCEPT !.lines[off + 1] = line]
    ELSE [f EXCEPT !.lines =
            f.lines \o [i \in 1..(off - Len(f.lines)) |-> Garbage] \o <<line>>]

\* build_cache's test on one photo: the date is known and its month and day
\* are today's.
IsSameDay(p, day) == get_photo_date(p) # NoDate /\ get_photo_date(p) = day

\* How many of the first n photos of the walk a build for `day` wrote to the
\* same-day file, resp. to the all file: the offsets of its two handles.
RECURSIVE SameOffset(_, _, _)
SameOffset(w, n, day) ==
    IF n = 0 THEN 0
    ELSE SameOffset(w, n - 1, day) + (IF IsSameDay(w[n], day) THEN 1 ELSE 0)
AllOffset(w, n, day) == n - SameOffset(w, n, day)

\* os.path.exists / open on a source path.
Readable(p) == p \in Paths /\ PhotoInfo[p].readable

\* The store as os.listdir + getmtime see it.
StoreKeys(st) == {st[i].key : i \in 1..Len(st)}
HasEntry(st, k) == k \in StoreKeys(st)
EntryIndex(st, k) == (CHOOSE i \in 1..Len(st) : st[i].key = k)
BytesOf(st, k) == st[EntryIndex(st, k)].bytes
Without(st, ks) == SelectSeq(st, LAMBDA e : e.key \notin ks)
\* A write that leaves the store as it was: what the write of the cache file
\* must differ from.
WriteNowhere(st, k, b) == st
\* open(cache_file, "wb") + write: the entry gets these bytes and the newest
\* modification time.
WriteEntry(st, k, b) == Append(Without(st, {k}), [key |-> k, bytes |-> b])

\* ------------------------------------------------------------------------
\* prune_cache
\* ------------------------------------------------------------------------
\* The while loop over the heap (oldest first): `fail` are the entries whose
\* os.remove raises OSError.  Yields the keys removed, in order, the keys
\* whose removal failed, and the counter.
\* A loop that counts an entry down whether or not its os.remove succeeded:
\* what lines 46-51 must differ from.
RECURSIVE PruneLoopCounting(_, _, _, _, _, _)
PruneLoopCounting(heap, cnt, lim, keys, fail, acc) ==
    IF ~(cnt > lim /\ heap # <<>>) THEN [acc EXCEPT !.count = cnt]
    ELSE LET k == Head(heap).key IN
         IF k \in keys
         THEN PruneLoopCounting(Tail(heap), cnt, lim, keys, fail, acc)
         ELSE IF k \in fail
         THEN PruneLoopCounting(Tail(heap), cnt - 1, lim, keys, fail,
                                [acc EXCEPT !.failed = @ \cup {k}])
         ELSE PruneLoopCounting(Tail(heap), cnt - 1, lim, keys, fail,
                                [acc EXCEPT !.deleted = Append(@, k)])

\* A loop that ends with its first successful removal: what the while of
\* line 40 must differ from.
RECURSIVE PruneLoopOnce(_, _, _, _, _, _)
PruneLoopOnce(heap, cnt, lim, keys, fail, acc) ==
    IF ~(cnt > lim /\ heap # <<>>) THEN [acc EXCEPT !.count = cnt]
    ELSE LET k == Head(heap).key IN
         IF k \in keys
         THEN PruneLoopOnce(Tail(heap), cnt, lim, keys, fail, acc)
         ELSE IF k \in fail
         THEN PruneLoopOnce(Tail(heap), cnt, lim, keys, fail,
                            [acc EXCEPT !.failed = @ \cup {k}])
         ELSE [acc EXCEPT !.deleted = Append(@, k), !.count = cnt - 1]

RECURSIVE PruneLoop(_, _, _, _, _, _)
PruneLoop(heap, cnt, lim, keys, fail, acc) ==
    IF ~(cnt > lim /\ heap # <<>>) THEN [acc EXCEPT !.count = cnt]
    ELSE LET k == Head(heap).key IN
         IF k \in keys
         THEN PruneLoop(Tail(heap), cnt, lim, keys, fail, acc)
         ELSE IF k \in fail
         THEN PruneLoop(Tail(heap), cnt, lim, keys, fail,
                        [acc EXCEPT !.failed = @ \cup {k}])
         ELSE PruneLoop(Tail(heap), cnt - 1, lim, keys, fail,
                        [acc EXCEPT !.deleted = Append(@, k)])

\* An eviction pass that goes by age alone, blind to the same-day keys: what
\* prune_cache must differ from.
prune_by_age(st, cnt, lim, keys, fail) ==
    IF cnt <= lim
    THEN [deleted |-> <<>>, failed |-> {}, count |-> cnt, ran |-> FALSE]
    ELSE PruneLoop(st, cnt, lim, {}, fail,
                   [deleted |-> <<>>, failed |-> {}, count |-> cnt, ran |-> TRUE])

\* An eviction pass that goes by the number of files it lists, not by the
\* live counter: what prune_cache must differ from.
prune_by_listing(st, cnt, lim, keys, fail) ==
    IF Len(st) <= lim
    THEN [deleted |-> <<>>, failed |-> {}, count |-> cnt, ran |-> FALSE]
    ELSE PruneLoop(st, Len(st), lim, keys, fail,
                   [deleted |-> <<>>, failed |-> {}, count |-> cnt, ran |-> TRUE])

\* An eviction pass that pops the youngest entry first: what the min-heap of
\* lines 30-41 must differ from.
Reverse(q) == [i \in 1..Len(q) |-> q[Len(q) + 1 - i]]
prune_newest_first(st, cnt, lim, keys, fail) ==
    IF cnt <= lim
    THEN [deleted |-> <<>>, failed |-> {}, count |-> cnt, ran |-> FALSE]
    ELSE PruneLoop(Reverse(st), cnt, lim, keys, fail,
                   [deleted |-> <<>>, failed |-> {}, count |-> cnt, ran |-> TRUE])

\* prune_cache(): nothing at or below the limit, else one pass.
prune_cache(st, cnt, lim, keys, fail) ==
    IF cnt <= lim
    THEN [deleted |-> <<>>, failed |-> {}, count |-> cnt, ran |-> FALSE]
    ELSE PruneLoop(st, cnt, lim, keys, fail,
                   [deleted |-> <<>>, failed |-> {}, count |-> cnt, ran |-> TRUE])

SeqRange(s) == {s[i] : i \in 1..Len(s)}

\* The effect of one prune_cache() call, entered with store st and counter
\* cnt, on the store and the counter; the pass is put on record when it
\* belongs to a direct call.
PruneEffect(st, cnt, fail, direct) ==
    LET r == prune_cache(st, cnt, cacheLimit, sameDayKeys, fail) IN
    /\ store' = Without(st, SeqRange(r.deleted))
    /\ cacheCount' = r.count
    /\ lastPrune' = IF ~direct THEN lastPrune ELSE
                    [called |-> TRUE, ran |-> r.ran,
                      before |-> [i \in 1..Len(st) |-> st[i].key],
                      prot |-> sameDayKeys, count |-> cnt, deleted |-> r.deleted,
                      failed |-> r.failed, after |-> r.count]

\* ------------------------------------------------------------------------
\* The end of a handler
\* ------------------------------------------------------------------------
\* The handler of worker t returns: the response goes out, Flask saves the
\* session to the client's cookie if the handler modified it, and the worker
\* is free again.  l: the handler's locals as it returns.  A function called
\* directly (a test, run_app) has no session and just ends, with 200 for a
\* return and 500 for an exception.
IsRoute(l) == l.kind \in {"random", "clear"}

Respond(t, l, status, body, bytes) ==
    /\ cookie' = IF IsRoute(l) /\ l.modified
                 THEN [cookie EXCEPT ![l.sid] = l.sess] ELSE cookie
    /\ log' = IF IsRoute(l) /\ l.sid \in traced /\ Len(log[l.sid]) < MaxLog
              THEN [log EXCEPT ![l.sid] =
                      Append(@, [url |-> l.kind, status |-> status, body |-> body])]
              ELSE log
    /\ ret' = IF IsRoute(l) THEN ret
              ELSE [op |-> l.kind, status |-> status, path |-> body, ov |-> l.ov,
                    q |-> l.q, bytes |-> bytes,
                    again |-> \/ /\ l.kind = "fetch"
                                 /\ ret.op = "fetch"
                                 /\ ret.status = 200
                                 /\ ret.path = l.path
                              \/ /\ l.kind = "prune"
                                 /\ ret.op = "prune"]
    /\ pc' = [pc EXCEPT ![t] = "idle"]
    /\ loc' = [loc EXCEPT ![t] = NoLocals]

\* A step inside a handler: only the worker's position and locals move.
Goto(t, l, where) ==
    /\ pc' = [pc EXCEPT ![t] = where]
    /\ loc' = [loc EXCEPT ![t] = l]
    /\ UNCHANGED <<cookie, log, ret>>

\* ------------------------------------------------------------------------
\* GET /random (routes.py random_image), step by step
\* ------------------------------------------------------------------------
\* The request of session s reaches worker t: before_request
\* (reset_on_first_visit) initialises a session that has no "initialized"
\* key, then the handler tests G.BUILDING_CACHE and answers 503 or goes on to
\* pick_file.
ReqStart(t, s) ==
    /\ pc[t] = "idle"
    /\ s \in clients
    /\ LET first == ~cookie[s].init
           l == [NoLocals EXCEPT !.sid = s, !.kind = "random",
                                 !.sess = IF first THEN FreshSession ELSE cookie[s],
                                 !.modified = first,
                                 !.ov = RouteOverlay, !.q = RouteQuality]
       IN IF building
          THEN Respond(t, l, 503, NoPath, NoBytes)
          ELSE Goto(t, l, "pick")
    /\ UNCHANGED <<today, indexVars, configVars, cacheCount, store, lastPrune>>

\* pick_file, lines 202-207: read today's date, rebuild if the index is not
\* of today or cache_all.txt is missing.
PickCheck(t) ==
    /\ pc[t] = "pick"
    /\ LET l == [loc[t] EXCEPT !.today = today] IN
       IF cacheDate # today \/ ~allFile.exists
       THEN Goto(t, l, "b_start")
       ELSE Goto(t, l, "select")
    /\ UNCHANGED <<today, indexVars, configVars, cacheCount, store, lastPrune>>

\* build_cache, lines 128-143: invalidate the date, raise the flag, replace
\* the key list, and open both sequence files for writing (which creates or
\* truncates them).
BuildStart(t) ==
    /\ pc[t] = "b_start"
    /\ cacheDate' = NoDate
    /\ building' = TRUE
    /\ sameDayKeys' = {}
    /\ allFile' = EmptyFile
    /\ sameFile' = EmptyFile
    /\ Goto(t, [loc[t] EXCEPT !.btoday = today, !.bi = 0], "b_scan")
    /\ UNCHANGED <<today, configVars, cacheCount, store, lastPrune>>

\* build_cache, lines 144-161: the next photo of the walk is classified and
\* its path written to one of the two files; a same-day photo's key is
\* recorded.
BuildScan(t) ==
    /\ pc[t] = "b_scan"
    /\ loc[t].bi < Len(walk)
    /\ LET l == loc[t]
           p == walk[l.bi + 1]
       IN /\ IF IsSameDay(p, l.btoday)
             THEN /\ sameFile' = WriteAt(sameFile, SameOffset(walk, l.bi, l.btoday), p)
                  /\ sameDayKeys' = sameDayKeys \cup {Md5(p)}
                  /\ UNCHANGED allFile
             ELSE /\ allFile' = WriteAt(allFile, AllOffset(walk, l.bi, l.btoday), p)
                  /\ UNCHANGED <<sameFile, sameDayKeys>>
          /\ Goto(t, [l EXCEPT !.bi = l.bi + 1], "b_scan")
    /\ UNCHANGED <<today, cacheDate, building, configVars, cacheCount, store, lastPrune>>

\* build_cache, lines 163-165: the walk is over, the files are closed, the
\* index is dated and the flag cleared; pick_file goes on to select.
BuildEnd(t) ==
    /\ pc[t] = "b_scan"
    /\ loc[t].bi = Len(walk)
    /\ cacheDate' = loc[t].btoday
    /\ building' = FALSE
    /\ IF loc[t].kind = "random"
       THEN Goto(t, loc[t], "select")
       ELSE Respond(t, loc[t], 200, NoPath, NoBytes)
    /\ UNCHANGED <<today, sameDayKeys, allFile, sameFile, configVars, cacheCount,
                   store, lastPrune>>

\* build_cache, lines 134-165 when the scan raises partway (an exception
\* get_photo_date does not catch, a failed write): finally clears the flag,
\* CACHE_DATE stays None, the error reaches the caller; the route answers 500.
BuildFail(t) ==
    /\ pc[t] = "b_scan"
    /\ loc[t].bi < Len(walk)
    /\ building' = FALSE
    /\ Respond(t, loc[t], 500, NoPath, NoBytes)
    /\ UNCHANGED <<today, cacheDate, sameDayKeys, allFile, sameFile, configVars,
                   cacheCount, store, lastPrune>>

\* pick_file, line 217: the cursor moves past the line just read.
\* StayAt is a cursor that does not move: what line 217 must differ from.
StayAt(idx) == idx
Advance(idx) == idx + 1

\* A selection that takes over the date on a new day but keeps the cursor's
\* position: what lines 210-212 must differ from.
SelectKeepPosition(t) ==
    /\ pc[t] = "select"
    /\ LET l0 == loc[t]
           stale == l0.sess.pdate = NoDate \/ l0.sess.pdate # l0.today
           s1 == IF stale THEN [l0.sess EXCEPT !.pdate = l0.today] ELSE l0.sess
           l1 == [l0 EXCEPT !.sess = s1, !.modified = l0.modified \/ stale]
           idx == s1.idx
           line == get_line(sameFile, idx)
           total == count_lines(allFile)
       IN IF line # NoPath
          THEN Goto(t, [l1 EXCEPT !.sess.idx = idx + 1, !.modified = TRUE,
                                  !.path = line], "rc_check")
          ELSE IF total > 0
          THEN \E r \in 0..(total - 1) :
                 Goto(t, [l1 EXCEPT !.path = get_line(allFile, r)], "rc_check")
          ELSE Respond(t, l1, 404, NoPath, NoBytes)
    /\ UNCHANGED <<today, indexVars, configVars, cacheCount, store, lastPrune>>

\* pick_file, lines 209-225: reset the cursor on a new day, serve the next
\* same-day line, else a random line of cache_all.txt, else None (404).
Select(t) ==
    /\ pc[t] = "select"
    /\ LET l0 == loc[t]
           stale == l0.sess.pdate = NoDate \/ l0.sess.pdate # l0.today
           s1 == IF stale THEN [l0.sess EXCEPT !.pdate = l0.today, !.idx = 0]
                 ELSE l0.sess
           l1 == [l0 EXCEPT !.sess = s1, !.modified = l0.modified \/ stale]
           idx == s1.idx
           line == get_line(sameFile, idx)
           total == count_lines(allFile)
       IN IF line # NoPath
          THEN Goto(t, [l1 EXCEPT !.sess.idx = Advance(idx), !.modified = TRUE,
                                  !.path = line], "rc_check")
          ELSE IF total > 0
          THEN \E r \in 0..(total - 1) :
                 Goto(t, [l1 EXCEPT !.path = get_line(allFile, r)], "rc_check")
          ELSE Respond(t, l1, 404, NoPath, NoBytes)
    /\ UNCHANGED <<today, indexVars, configVars, cacheCount, store, lastPrune>>

\* ------------------------------------------------------------------------
\* resize_and_compress (image_utils.py), step by step
\* ------------------------------------------------------------------------
\* resize_and_compress returns buf to its caller: the route goes on to its
\* bookkeeping, a direct call ends.
ReturnBuf(t, l) ==
    IF l.kind = "random"
    THEN Goto(t, l, "serve")
    ELSE Respond(t, l, 200, l.path, l.buf)

\* A cache check that refreshes the entry it hits (rewrites it, which gives
\* it the newest modification time): what a hit must differ from.
RcCheckTouch(t) ==
    /\ pc[t] = "rc_check"
    /\ LET l == loc[t]
           k == Md5(l.path)
       IN IF HasEntry(store, k)
          THEN /\ store' = WriteEntry(store, k, BytesOf(store, k))
               /\ ReturnBuf(t, [l EXCEPT !.buf = BytesOf(store, k)])
          ELSE /\ store' = store
               /\ IF ~Readable(l.path)
                  THEN Respond(t, l, 500, l.path, NoBytes)
                  ELSE Goto(t, l, "rc_miss")
    /\ UNCHANGED <<today, indexVars, configVars, cacheCount, lastPrune>>

\* A miss that stores the image without its overlay while returning it with
\* the overlay: what the write of buf.getvalue() must differ from.
RcMissPlain(t) ==
    /\ pc[t] = "rc_miss"
    /\ cacheCount < MaxCount
    /\ LET l == loc[t]
           b == Encode(l.path, l.ov, l.q)
           st == WriteEntry(store, Md5(l.path), Encode(l.path, "none", l.q))
       IN /\ \E fail \in SUBSET (StoreKeys(st) \cap flaky) :
               PruneEffect(st, cacheCount + 1, fail, ~IsRoute(l))
          /\ ReturnBuf(t, [l EXCEPT !.buf = b])
    /\ UNCHANGED <<today, indexVars, configVars>>

\* A miss that writes its entry without counting it: what line 126 must
\* differ from.
RcMissUncounted(t) ==
    /\ pc[t] = "rc_miss"
    /\ cacheCount < MaxCount
    /\ LET l == loc[t]
           b == Encode(l.path, l.ov, l.q)
           st == WriteEntry(store, Md5(l.path), b)
       IN /\ \E fail \in SUBSET (StoreKeys(st) \cap flaky) :
               PruneEffect(st, cacheCount, fail, ~IsRoute(l))
          /\ ReturnBuf(t, [l EXCEPT !.buf = b])
    /\ UNCHANGED <<today, indexVars, configVars>>

\* Lines 89-102: the cache check.  A hit reads the entry and returns it; a miss
\* goes on to open the source, which raises OSError for an unreadable path.
\* A miss path that goes on to encode whatever the source is.
RcCheckEager(t) ==
    /\ pc[t] = "rc_check"
    /\ LET l == loc[t]
           k == Md5(l.path)
       IN IF HasEntry(store, k)
          THEN ReturnBuf(t, [l EXCEPT !.buf = BytesOf(store, k)])
          ELSE Goto(t, l, "rc_miss")
    /\ UNCHANGED <<today, indexVars, configVars, cacheCount, store, lastPrune>>

RcCheck(t) ==
    /\ pc[t] = "rc_check"
    /\ LET l == loc[t]
           k == Md5(l.path)
       IN IF HasEntry(store, k)
          THEN ReturnBuf(t, [l EXCEPT !.buf = BytesOf(store, k)])
          ELSE IF ~Readable(l.path)
          THEN Respond(t, l, 500, l.path, NoBytes)
          ELSE Goto(t, l, "rc_miss")
    /\ UNCHANGED <<today, indexVars, configVars, cacheCount, store, lastPrune>>

\* Lines 104-140 on a miss: decode, resize, overlay, encode; write the entry
\* and count it; run the eviction pass; return buf.
RcMiss(t) ==
    /\ pc[t] = "rc_miss"
    /\ cacheCount < MaxCount
    /\ LET l == loc[t]
           b == Encode(l.path, l.ov, l.q)
           st == WriteEntry(store, Md5(l.path), b)
       IN /\ \E fail \in SUBSET (StoreKeys(st) \cap flaky) :
               PruneEffect(st, cacheCount + 1, fail, ~IsRoute(l))
          /\ ReturnBuf(t, [l EXCEPT !.buf = b])
    /\ UNCHANGED <<today, indexVars, configVars>>

\* random_image, lines 98-118: count the serve, restart the same-day sequence
\* once the count exceeds the cycle threshold, send the image.
Serve(t) ==
    /\ pc[t] = "serve"
    /\ LET l == loc[t]
           n == l.sess.served + 1
           s1 == IF n > sameDayCycle
                 THEN [l.sess EXCEPT !.idx = 0, !.served = 0]
                 ELSE [l.sess EXCEPT !.served = n]
       IN Respond(t, [l EXCEPT !.sess = s1, !.modified = TRUE], 200, l.path, l.buf)
    /\ UNCHANGED <<today, indexVars, configVars, cacheCount, store, lastPrune>>

\* ------------------------------------------------------------------------
\* clear_entire_cache and GET /clear_cache
\* ------------------------------------------------------------------------
\* clear_entire_cache: remove every entry and both sequence files (keep: the
\* entries, txt: the sequence files whose os.remove raises OSError), then
\* reset the counter, the key list and the date.
ClearEffect(keep, txt) ==
    /\ store' = SelectSeq(store, LAMBDA e : e.key \in keep)
    /\ allFile' = IF "all" \in txt THEN allFile ELSE MissingFile
    /\ sameFile' = IF "same" \in txt THEN sameFile ELSE MissingFile
    /\ cacheCount' = 0
    /\ sameDayKeys' = {}
    /\ cacheDate' = NoDate
    /\ UNCHANGED <<building, lastPrune>>

\* routes.py clear_cache: 503 while the flag is up, else clear everything and
\* zero the session's cursor and count.
ClearCache(t, s) ==
    /\ pc[t] = "idle"
    /\ s \in clients
    /\ LET first == ~cookie[s].init
           l == [NoLocals EXCEPT !.sid = s, !.kind = "clear",
                                 !.sess = IF first THEN FreshSession ELSE cookie[s],
                                 !.modified = first]
       IN IF building
          THEN /\ Respond(t, l, 503, NoPath, NoBytes)
               /\ UNCHANGED <<indexVars, cacheCount, store, lastPrune>>
          ELSE /\ \E keep \in SUBSET (StoreKeys(store) \cap flaky),
                       txt \in SUBSET ({"all", "same"} \cap flaky) :
                    ClearEffect(keep, txt)
               /\ Respond(t, [l EXCEPT !.sess.idx = 0, !.sess.served = 0,
                                       !.modified = TRUE], 200, NoPath, NoBytes)
    /\ UNCHANGED <<today, configVars>>

\* ------------------------------------------------------------------------
\* The functions called directly, and the calendar
\* ------------------------------------------------------------------------
\* resize_and_compress(p, ov, q) called on its own.
CallFetch(t, p, ov, q) ==
    /\ pc[t] = "idle"
    /\ Goto(t, [NoLocals EXCEPT !.kind = "fetch", !.path = p, !.ov = ov, !.q = q],
            "rc_check")
    /\ UNCHANGED <<today, indexVars, configVars, cacheCount, store, lastPrune>>

\* prune_cache() called on its own (run_app, a maintenance call).
CallPrune(t) ==
    /\ pc[t] = "idle"
    /\ \E fail \in SUBSET (StoreKeys(store) \cap flaky) :
         PruneEffect(store, cacheCount, fail, TRUE)
    /\ Respond(t, [NoLocals EXCEPT !.kind = "prune"], 200, NoPath, NoBytes)
    /\ UNCHANGED <<today, indexVars, configVars>>

\* build_cache(base_dir) called on its own.
CallBuild(t) ==
    /\ pc[t] = "idle"
    /\ Goto(t, [NoLocals EXCEPT !.kind = "build"], "b_start")
    /\ UNCHANGED <<today, indexVars, configVars, cacheCount, store, lastPrune>>

\* clear_entire_cache() called on its own.
CallClear(t) ==
    /\ pc[t] = "idle"
    /\ \E keep \in SUBSET (StoreKeys(store) \cap flaky),
          txt \in SUBSET ({"all", "same"} \cap flaky) :
         ClearEffect(keep, txt)
    /\ Respond(t, [NoLocals EXCEPT !.kind = "clear_all"], 200, NoPath, NoBytes)
    /\ UNCHANGED <<today, configVars>>

\* Midnight passes.
DayRollover ==
    /\ today < MaxDay
    /\ today' = today + 1
    /\ UNCHANGED <<indexVars, configVars, cacheCount, store, cookie, pc, loc,
                   log, ret, lastPrune>>

\* ------------------------------------------------------------------------
\* Specifications
\* ------------------------------------------------------------------------
\* Process start (globals.py): no index, the flag down, no keys, the counter
\* at 0, whatever an earlier run left in the store; no client holds a cookie.
\* No call of get_photo_date on its own.
Pending == [exc |-> "pending", value |-> None]
NoPhoto == [name |-> <<>>, opens |-> FALSE, exif |-> <<>>, mtime |-> None]
NoDateProbe == photo = NoPhoto /\ resolved = Pending
\* No call of load_config on its own.
NoConfigFile == [exists |-> FALSE, top |-> "empty", sections |-> EmptyDict]
NotLoaded == [exc |-> "pending", value |-> EmptyDict]
NoConfigProbe ==
    /\ configFile = NoConfigFile
    /\ defaults = DEFAULT_CONFIG
    /\ loaded = NotLoaded
\* No walk examined on its own.
NoFound == [base |-> <<>>, dirs |-> <<>>, file |-> <<>>]
NoWalkProbe == found = NoFound /\ indexed = "pending"
NoProbe == NoDateProbe /\ NoConfigProbe /\ NoWalkProbe

Boot ==
    /\ today = 1
    /\ cacheDate = NoDate
    /\ building = FALSE
    /\ sameDayKeys = {}
    /\ cacheCount = 0
    /\ allFile = MissingFile
    /\ sameFile = MissingFile
    /\ cookie = [s \in Sessions |-> NoSession]
    /\ pc = [t \in Threads |-> "idle"]
    /\ loc = [t \in Threads |-> NoLocals]
    /\ log = [s \in Sessions |-> <<>>]
    /\ ret = NoRet
    /\ lastPrune = NoPrune

\* The server under concurrent requests: every worker steps on its own.  One
\* client, a collection of two photos, deletions that succeed.
Init ==
    /\ Boot
    /\ NoProbe
    /\ cacheLimit = 1
    /\ sameDayCycle = 1
    /\ traced = {}
    /\ clients = {"s1"}
    /\ flaky = {}
    /\ walk = <<"p1", "p3">>
    /\ store = <<>>

Step(t) ==
    \/ \E s \in Sessions : ReqStart(t, s)
    \/ PickCheck(t)
    \/ BuildStart(t)
    \/ BuildScan(t)
    \/ BuildEnd(t)
    \/ BuildFail(t)
    \/ Select(t)
    \/ RcCheck(t)
    \/ RcMiss(t)
    \/ Serve(t)
    \/ \E s \in Sessions : ClearCache(t, s)

Next ==
    \/ \E t \in Threads : Step(t)
    \/ DayRollover

Spec == Init /\ [][Next]_vars

\* The server when requests arrive one after another: a single worker, every
\* cycle threshold, two clients, the full collection, the responses of one
\* client recorded.
InitSeq ==
    /\ Boot
    /\ NoProbe
    /\ cacheLimit = 1
    /\ sameDayCycle \in 0..MaxCycle
    /\ traced = {"s1"}
    /\ clients = Sessions
    /\ flaky = {}
    /\ walk = FullWalk
    /\ store = <<>>

NextSeq ==
    \/ Step("t1")
    \/ DayRollover

SpecSeq == InitSeq /\ [][NextSeq]_vars

\* The same server, requests one after another, with every limit and no
\* response recorded.
InitTurns ==
    /\ Boot
    /\ NoProbe
    /\ cacheLimit \in 0..MaxLimit
    /\ sameDayCycle \in 0..MaxCycle
    /\ traced = {}
    /\ clients = Sessions
    /\ flaky = {}
    /\ walk = FullWalk
    /\ store = <<>>

SpecTurns == InitTurns /\ [][NextSeq]_vars

\* One session that keeps asking for photos on one day, every request
\* handled to its end: collections of readable photos whose first photo is a
\* same-day photo, with and without photos of other days.
LiveWalks == {<<"p1">>, <<"p1", "p2">>, <<"p1", "p3">>, <<"p1", "p3", "p2">>}

InitLive ==
    /\ Boot
    /\ NoProbe
    /\ cacheLimit = 1
    /\ sameDayCycle \in 0..MaxCycle
    /\ traced = {}
    /\ clients = {"s1"}
    /\ flaky = {}
    /\ walk \in LiveWalks
    /\ store = <<>>

NextLive ==
    \/ ReqStart("t1", "s1")
    \/ PickCheck("t1")
    \/ BuildStart("t1")
    \/ BuildScan("t1")
    \/ BuildEnd("t1")
    \/ Select("t1")
    \/ RcCheck("t1")
    \/ RcMiss("t1")
    \/ Serve("t1")

SpecLive == InitLive /\ [][NextLive]_vars /\ WF_vars(NextLive)

\* One client of a collection that holds a photo that cannot be decoded, its
\* responses recorded, and resize_and_compress also called directly.
InitFaults ==
    /\ Boot
    /\ NoProbe
    /\ cacheLimit = 1
    /\ sameDayCycle \in 0..1
    /\ traced = {"s1"}
    /\ clients = {"s1"}
    /\ flaky = {}
    /\ walk = <<"p1", "p4">>
    /\ store = <<>>

NextFaults ==
    \/ Step("t1")
    \/ \E p \in {"p1", "p4"} : CallFetch("t1", p, RouteOverlay, RouteQuality)
    \/ DayRollover

SpecFaults == InitFaults /\ [][NextFaults]_vars

\* One client of a collection that holds a same-day photo that cannot be
\* decoded, before or after a same-day photo that can, requests one after
\* another, every cycle threshold.
SkipWalks == {<<"p5", "p1", "p3">>, <<"p1", "p5", "p3">>}

InitSkip ==
    /\ Boot
    /\ NoProbe
    /\ cacheLimit = 1
    /\ sameDayCycle \in 0..MaxCycle
    /\ traced = {}
    /\ clients = {"s1"}
    /\ flaky = {}
    /\ walk \in SkipWalks
    /\ store = <<>>

SpecSkip == InitSkip /\ [][NextSeq]_vars

\* The cache functions called directly, one call after another, from a
\* process start at which an earlier run may have left entries in the store.
OldStores ==
    {<<>>,
     <<[key |-> ForeignKey, bytes |-> OldBytes]>>,
     <<[key |-> "h1", bytes |-> OldBytes], [key |-> ForeignKey, bytes |-> OldBytes]>>,
     <<[key |-> ForeignKey, bytes |-> OldBytes], [key |-> "h3", bytes |-> OldBytes]>>}

InitApi ==
    /\ Boot
    /\ NoProbe
    /\ cacheLimit \in 0..MaxLimit
    /\ sameDayCycle = 1
    /\ traced = {}
    /\ clients = {}
    /\ flaky = Keys
    /\ walk = <<"p1", "p3">>
    /\ store \in OldStores

NextApi ==
    \/ \E p \in {"p1", "p3", "p4"}, a \in CallArgs : CallFetch("t1", p, a[1], a[2])
    \/ CallPrune("t1")
    \/ CallBuild("t1")
    \/ CallClear("t1")
    \/ BuildStart("t1")
    \/ BuildScan("t1")
    \/ BuildEnd("t1")
    \/ BuildFail("t1")
    \/ RcCheck("t1")
    \/ RcMiss("t1")
    \/ DayRollover

SpecApi == InitApi /\ [][NextApi]_vars

\* The eviction pass on its own: prune_cache called between misses and
\* builds, from a process start at which an earlier run may have left
\* entries in the store, with deletions that may fail.
NextPrune ==
    \/ \E p \in {"p1", "p3"} : CallFetch("t1", p, RouteOverlay, RouteQuality)
    \/ CallPrune("t1")
    \/ CallBuild("t1")
    \/ BuildStart("t1")
    \/ BuildScan("t1")
    \/ BuildEnd("t1")
    \/ RcCheck("t1")
    \/ RcMiss("t1")
    \/ DayRollover

SpecPrune == InitApi /\ [][NextPrune]_vars

\* get_photo_date called on its own for one file.  The base names are made
\* of up to MaxTokens pieces: 8 digits that are a date (one of them a 29th of
\* February of a leap year), 8 digits that are none (month 13, a 29th of
\* February of a common year), hyphenated dates that exist and do not, a
\* lone digit, a letter.
Chars(a, b, c, d) == <<a, b, c, d>>
NameTokens ==
    {Chars("2", "0", "2", "4") \o Chars("0", "1", "1", "5"),
     Chars("2", "0", "2", "4") \o Chars("0", "2", "2", "9"),
     Chars("2", "0", "2", "4") \o Chars("1", "3", "1", "5"),
     Chars("2", "0", "2", "3") \o Chars("0", "2", "2", "9"),
     Chars("2", "0", "2", "3") \o Chars("-", "0", "6", "-") \o <<"0", "1">>,
     Chars("2", "0", "2", "3") \o Chars("-", "0", "2", "-") \o <<"3", "0">>,
     <<"7">>,
     <<"x">>}

RECURSIVE NamesOf(_)
NamesOf(n) ==
    IF n = 0 THEN {<<>>}
    ELSE {t \o s : t \in NameTokens, s \in NamesOf(n - 1)}
Names == UNION {NamesOf(n) : n \in 1..MaxTokens}

\* What exif.items() yields: up to MaxFields items with distinct tags, in any
\* order; each date tag with a value of its own that strptime parses, with a
\* string it does not parse, or with a value that is not a string.
TagDate(tag) ==
    CASE tag = "DateTimeOriginal" -> Date(2019, 1, 1)
      [] tag = "DateTimeDigitized" -> Date(2019, 2, 2)
      [] tag = "DateTime" -> Date(2019, 3, 3)
      [] OTHER -> None
ExifItems ==
    {[tag |-> t, text |-> TRUE, date |-> TagDate(t)] : t \in DateTags}
    \cup {[tag |-> t, text |-> TRUE, date |-> None] : t \in DateTags}
    \cup {[tag |-> t, text |-> FALSE, date |-> None] : t \in DateTags}
    \cup {[tag |-> "Make", text |-> TRUE, date |-> None]}

RECURSIVE ExifLists(_)
ExifLists(n) ==
    IF n = 0 THEN {<<>>}
    ELSE LET shorter == ExifLists(n - 1) IN
         shorter \cup {Append(l, it) : l \in shorter, it \in ExifItems}

DistinctTags(l) == \A i, j \in 1..Len(l) : l[i].tag = l[j].tag => i = j

PhotoFiles ==
    [name : Names,
     opens : BOOLEAN,
     exif : {l \in ExifLists(MaxFields) : DistinctTags(l)},
     mtime : {Date(2022, 3, 4), None}]

InitDates ==
    /\ Boot
    /\ cacheLimit = 1
    /\ sameDayCycle = 1
    /\ traced = {}
    /\ clients = {}
    /\ flaky = {}
    /\ walk = <<>>
    /\ store = <<>>
    /\ photo \in PhotoFiles
    /\ resolved = Pending
    /\ NoConfigProbe
    /\ NoWalkProbe

\* get_photo_date(path) runs to its end.
CallGetPhotoDate ==
    /\ resolved = Pending
    /\ resolved' = GetPhotoDate(photo)
    /\ UNCHANGED <<today, indexVars, walk, cacheLimit, sameDayCycle, clients, flaky,
                   traced, photo, cacheCount, store, cookie, pc, loc, log, ret,
                   lastPrune, configFile, defaults, loaded, found, indexed>>

NextDates == CallGetPhotoDate

SpecDates == InitDates /\ [][NextDates]_vars

\* load_config called on its own.  The file is absent, not YAML, empty, a
\* list or a scalar, or a mapping of some of the sections image, cache and
\* extra (unknown) to something that is not a dict or to a dict that gives
\* values 1..MaxSetting to some of the keys max_width, limit and other.
FileKeys == {"max_width", "limit", "other"}
FileDicts == UNION {[ks -> 1..MaxSetting] : ks \in SUBSET FileKeys}
FileSections ==
    {[isdict |-> TRUE, items |-> d] : d \in FileDicts}
    \cup {[isdict |-> FALSE, items |-> EmptyDict]}
FileMappings == UNION {[ss -> FileSections] : ss \in SUBSET {"image", "cache", "extra"}}
ConfigFiles ==
    {[exists |-> TRUE, top |-> "mapping", sections |-> m] : m \in FileMappings}
    \cup {[exists |-> TRUE, top |-> t, sections |-> EmptyDict] :
             t \in {"empty", "other", "invalid"}}
    \cup {NoConfigFile}

InitConfig ==
    /\ Boot
    /\ cacheLimit = 1
    /\ sameDayCycle = 1
    /\ traced = {}
    /\ clients = {}
    /\ flaky = {}
    /\ walk = <<>>
    /\ store = <<>>
    /\ NoDateProbe
    /\ configFile \in ConfigFiles
    /\ defaults = DEFAULT_CONFIG
    /\ loaded = NotLoaded
    /\ NoWalkProbe

\* load_config(path) runs to its end.
CallLoadConfig ==
    /\ loaded = NotLoaded
    /\ LET r == load_config(defaults, configFile) IN
         /\ loaded' = [exc |-> r.exc, value |-> r.value]
         /\ defaults' = r.defaults
    /\ UNCHANGED <<today, indexVars, walk, cacheLimit, sameDayCycle, clients, flaky,
                   traced, photo, resolved, configFile, cacheCount, store, cookie,
                   pc, loc, log, ret, lastPrune, found, indexed>>

NextConfig == CallLoadConfig

SpecConfig == InitConfig /\ [][NextConfig]_vars

\* build_cache's walk examined on its own for one file: base_dir is /srv
\* followed by one directory, the file lies up to MaxDepth directories below
\* it.  The directory names hold an ignore name exactly, in another case,
\* inside a longer name, or not at all (among them the two halves of one).
DirNames ==
    {<<"x">>, <<"c", "a", "c", "h", "e">>, <<"C", "a", "C", "h", "e">>, <<"c">>,
     <<"a", "c", "h", "e">>, <<"m", "y", "c", "a", "c", "h", "e", "2">>, <<".", "g", "i", "t">>,
     <<"m", "y", ".", "g", "i", "t", "h", "u", "b">>}
FileNames == {<<"a", ".", "j", "p", "g">>, <<"A", ".", "J", "P", "G">>, <<"a", ".", "t", "x", "t">>, <<"j", "p", "g">>}
DirLists == UNION {[1..n -> DirNames] : n \in 0..MaxDepth}
FoundFiles ==
    [base : {<<"/", "s", "r", "v", "/">> \o d : d \in DirNames}, dirs : DirLists, file : FileNames]

InitWalk ==
    /\ Boot
    /\ cacheLimit = 1
    /\ sameDayCycle = 1
    /\ traced = {}
    /\ clients = {}
    /\ flaky = {}
    /\ walk = <<>>
    /\ store = <<>>
    /\ NoDateProbe
    /\ NoConfigProbe
    /\ found \in FoundFiles
    /\ indexed = "pending"

\* The walk of build_cache gets to the file.
WalkFile ==
    /\ indexed = "pending"
    /\ indexed' = IF IsIndexed(found.base, found.dirs, found.file) THEN "yes" ELSE "no"
    /\ UNCHANGED <<today, indexVars, walk, cacheLimit, sameDayCycle, clients, flaky,
                   traced, photo, resolved, configFile, defaults, loaded, found,
                   cacheCount, store, cookie, pc, loc, log, ret, lastPrune>>

NextWalk == WalkFile

SpecWalk == InitWalk /\ [][NextWalk]_vars

\* ------------------------------------------------------------------------
\* Vocabulary of the claims
\* ------------------------------------------------------------------------
\* Worker t is inside build_cache: past its first lines, not yet through its
\* finally.
InBuild(t) == pc[t] = "b_scan"
Builders == {t \in Threads : InBuild(t)}

\* The two sequences a complete build for `day` writes for collection w.
SameSeq(w, day) == SelectSeq(w, LAMBDA p : IsSameDay(p, day))
AllSeq(w, day) == SelectSeq(w, LAMBDA p : ~IsSameDay(p, day))

\* How often path p occurs in a sequence of lines.
Occurrences(lines, p) == Cardinality({i \in 1..Len(lines) : lines[i] = p})

\* ------------------------------------------------------------------------
\* C1.  While a build is in progress no selection request reads the sequence
\* files or is served a path: a request that overlaps a build is answered
\* 503.  Stated as: no worker executes pick_file's selection (the reads of
\* cache_same_day.txt and cache_all.txt) while another worker is inside
\* build_cache.
\* ------------------------------------------------------------------------
C1_NoSelectionDuringBuild ==
    [][\A t \in Threads :
          Select(t) => ~(\E u \in Threads \ {t} : InBuild(u))]_vars

\* ------------------------------------------------------------------------
\* C2.  No two index builds run at the same time: at most one worker is
\* inside build_cache at any moment.
\* ------------------------------------------------------------------------
C2_BuildsAreExclusive == Cardinality(Builders) <= 1

\* ------------------------------------------------------------------------
\* C3.  When a build completes successfully, both sequence files exist and
\* every enumerated photo is in exactly one of them, exactly once; a photo of
\* unknown date is in cache_all.txt.
\* ------------------------------------------------------------------------
PartitionWritten ==
    /\ allFile.exists
    /\ sameFile.exists
    /\ \A i \in 1..Len(walk) :
         /\ Occurrences(sameFile.lines, walk[i]) + Occurrences(allFile.lines, walk[i]) = 1
         /\ get_photo_date(walk[i]) = NoDate => Occurrences(allFile.lines, walk[i]) = 1

C3_BuildPartitions ==
    [][\A t \in Threads : BuildEnd(t) => PartitionWritten']_vars

\* ------------------------------------------------------------------------
\* C8.  A selection invokes the build only when the index is stale: whenever
\* a /random request enters build_cache, the recorded build date differs from
\* today or cache_all.txt is missing.  So a day change causes one build, and
\* selections that follow a completed build of the day cause no further one.
\* ------------------------------------------------------------------------
IndexStale == cacheDate # today \/ ~allFile.exists

C8_BuildOnlyWhenStale ==
    [][\A t \in Threads :
          (BuildStart(t) /\ loc[t].kind = "random") => IndexStale]_vars

\* ------------------------------------------------------------------------
\* C4.  An eviction pass never deletes an entry whose key is among the
\* same-day keys at the time of the pass.  With a limit of 1 and two entries
\* of which exactly one is protected, a pass that runs (the counter is above
\* the limit) and whose deletions succeed removes exactly the unprotected
\* entry, whichever of the two is older.  When every entry is protected the
\* pass removes nothing and leaves the counter as it was, above the limit.
\* ------------------------------------------------------------------------
Protected(pr) == SeqRange(pr.before) \cap pr.prot
Unprotected(pr) == SeqRange(pr.before) \ pr.prot

Evictable == {k \in StoreKeys(store) : k \notin sameDayKeys /\ k \notin lastPrune.failed}

C5_StoreWithinLimit ==
    (ret.op \in {"fetch", "prune"} /\ ret.status = 200)
      => (Len(store) <= cacheLimit \/ Cardinality(Evictable) <= cacheLimit)

\* ------------------------------------------------------------------------
\* C9.  Two calls of resize_and_compress in a row with the same path return
\* the same bytes, and the second is a hit: it encodes nothing and leaves the
\* store, modification times included, as it was.
\* ------------------------------------------------------------------------
\* Worker t's call of resize_and_compress returns in this step, and the call
\* completed just before it was a successful one for the same path.
SecondCallReturns(t) ==
    /\ loc[t].kind = "fetch"
    /\ ret.op = "fetch"
    /\ ret.status = 200
    /\ ret.path = loc[t].path
    /\ pc[t] \in {"rc_check", "rc_miss"}
    /\ pc'[t] = "idle"

SecondCallIsHit(t) ==
    /\ pc[t] = "rc_check"
    /\ ret'.status = 200
    /\ ret'.bytes = ret.bytes
    /\ store' = store

\* As claimed, for every limit and every set of protected keys.
C9_TwiceIsIdempotent ==
    [][\A t \in Threads : SecondCallReturns(t) => SecondCallIsHit(t)]_vars

\* Provided the entry of the path is in the store when the first call has
\* returned (its own eviction pass did not remove it).
C9_TwiceIsIdempotentIfKept ==
    [][\A t \in Threads :
          (SecondCallReturns(t) /\ HasEntry(store, Md5(loc[t].path)))
            => SecondCallIsHit(t)]_vars

\* A second call in a row has returned the bytes of the first although it
\* asked for another overlay and quality.
C9_Witness ==
    /\ ret.again
    /\ ret.status = 200
    /\ HasEntry(store, Md5(ret.path))
    /\ ret.bytes = BytesOf(store, Md5(ret.path))
    /\ ret.bytes.src = ret.path
    /\ <<ret.bytes.ov, ret.bytes.q>> # <<ret.ov, ret.q>>

\* ------------------------------------------------------------------------
\* C10.  A cache hit returns the stored bytes whatever overlay and quality
\* are passed and changes nothing: the store (every entry's bytes and
\* modification time), the counter and the same-day keys stay as they were
\* and no eviction pass runs.
\* ------------------------------------------------------------------------
C10_HitIsPure ==
    [][\A t \in Threads :
          (RcCheck(t) /\ loc[t].kind = "fetch" /\ HasEntry(store, Md5(loc[t].path)))
            => /\ ret'.status = 200
               /\ ret'.bytes = BytesOf(store, Md5(loc[t].path))
               /\ store' = store
               /\ cacheCount' = cacheCount
               /\ sameDayKeys' = sameDayKeys
               /\ lastPrune' = lastPrune]_vars

\* A hit on the older of two entries has returned what an earlier run had
\* stored.
C10_Witness ==
    /\ ret.op = "fetch"
    /\ ret.status = 200
    /\ ret.bytes = OldBytes
    /\ Len(store) = 2
    /\ store[1].key = Md5(ret.path)
    /\ store[1].bytes = OldBytes

\* ------------------------------------------------------------------------
\* C6.  A session with a fresh cursor that asks for photo after photo on one
\* day gets the n same-day photos in sequence order as its first n photos,
\* and a member of cache_all.txt as photo n+1.
\* ------------------------------------------------------------------------
\* Everything client s has got so far is a photo from GET /random.
OnlyPhotos(s) ==
    \A i \in 1..Len(log[s]) : log[s][i].url = "random" /\ log[s][i].status = 200

C6_SameDayBeforeFallback ==
    (today = 1 /\ OnlyPhotos("s1")) =>
      LET L == log["s1"]
          S == SameSeq(walk, 1)
          A == AllSeq(walk, 1)
      IN \A i \in 1..Len(L) :
           /\ i <= Len(S) => L[i].body = S[i]
           /\ i = Len(S) + 1 => L[i].body \in SeqRange(A)

\* ------------------------------------------------------------------------
\* C7.  The same-day sequence restarts on the number of fallback serves: with
\* a cycle threshold of 2 the three photos that follow the last same-day
\* photo are all fallback picks from cache_all.txt, and only then does the
\* sequence start again.
\* ------------------------------------------------------------------------
C7_RestartCountsFallbacks ==
    (today = 1 /\ sameDayCycle = 2 /\ OnlyPhotos("s1")) =>
      LET L == log["s1"]
          S == SameSeq(walk, 1)
          A == AllSeq(walk, 1)
      IN \A i \in 1..Len(L) :
           (Len(S) < i /\ i <= Len(S) + 3) => L[i].body \in SeqRange(A)

\* ------------------------------------------------------------------------
\* C11.  build_cache clears the flag when it ends, by return or by exception.
\* When the scan raises partway, CACHE_DATE is left unset as the error goes to
\* the caller, and a selection that finds CACHE_DATE unset runs a build before
\* it reads a line.
\* ------------------------------------------------------------------------
C11_FailedBuildLeavesNoIndex ==
    [][\A t \in Threads :
          /\ BuildEnd(t) => building' = FALSE
          /\ BuildFail(t) => (building' = FALSE /\ cacheDate' = NoDate)
          /\ (PickCheck(t) /\ cacheDate = NoDate) => pc'[t] = "b_start"]_vars

\* ------------------------------------------------------------------------
\* C12.  A selection that has run build_cache reads its same-day line at
\* position 0, whatever date the session's cursor carried: the cursor is reset
\* whenever the index is rebuilt.
\* ------------------------------------------------------------------------
\* Worker t's request has gone through build_cache.
HasBuilt(t) == loc[t].kind = "random" /\ loc[t].btoday # NoDate
\* The position at which pick_file, entered with these locals, reads
\* cache_same_day.txt.
ReadPosition(l) == IF l.sess.pdate # l.today THEN 0 ELSE l.sess.idx

C12_RebuildResetsCursor ==
    [][\A t \in Threads :
          (Select(t) /\ HasBuilt(t)) => ReadPosition(loc[t]) = 0]_vars

\* ------------------------------------------------------------------------
\* C13.  A selection by a session whose cursor carries no date, or a date
\* other than today, reads cache_same_day.txt at position 0 and dates the
\* cursor today; so if that file has a first line, the selection returns it
\* and leaves the cursor at position 1.
\* ------------------------------------------------------------------------
C13_NewDayStartsAtFirst ==
    [][\A t \in Threads :
          (Select(t) /\ loc[t].sess.pdate # loc[t].today) =>
            IF get_line(sameFile, 0) # NoPath
            THEN /\ pc'[t] = "rc_check"
                 /\ loc'[t].path = get_line(sameFile, 0)
                 /\ loc'[t].sess.idx = 1
                 /\ loc'[t].sess.pdate = loc[t].today
            ELSE pc'[t] = "rc_check" =>
                   /\ loc'[t].sess.idx = 0
                   /\ loc'[t].sess.pdate = loc[t].today]_vars

\* On day 2 a session that was past position 0 on day 1 has been given the
\* first same-day photo of day 2.
C13_Witness ==
    \E t \in Threads :
      /\ pc[t] = "rc_check"
      /\ loc[t].kind = "random"
      /\ loc[t].today = 2
      /\ cookie[loc[t].sid].pdate = 1
      /\ cookie[loc[t].sid].idx > 0
      /\ loc[t].sess.pdate = 2
      /\ loc[t].sess.idx = 1
      /\ loc[t].path = SameSeq(walk, 2)[1]

\* ------------------------------------------------------------------------
\* C14.  photo_served counts the images served since the cursor was last
\* reset to position 0, so every reset of the cursor returns photo_served to
\* 0 as well: in particular the reset pick_file makes on a new day.
\* ------------------------------------------------------------------------
\* pick_file, entered with these locals, resets a cursor that was dated.
DayReset(l) == l.sess.pdate # NoDate /\ l.sess.pdate # l.today

C14_ResetClearsServed ==
    [][\A t \in Threads :
          (Select(t) /\ DayReset(loc[t]) /\ pc'[t] = "rc_check")
            => loc'[t].sess.served = 0]_vars

\* ------------------------------------------------------------------------
\* C15.  Within a session whose requests come one after another, the same-day
\* photos served between two resets of the cursor come in strictly increasing
\* position.  Stated on the cursor a response leaves in the cookie: a same-day
\* photo is served from a position at or past that cursor unless this request
\* reset it, the response that serves position k leaves the cursor past k or
\* reset (position 0, nothing served), and within one day the cursor never
\* moves back except by such a reset.
\* ------------------------------------------------------------------------
\* The position in cache_same_day.txt of the photo worker t is about to send,
\* -1 for a fallback pick.
ServedPosition(l) ==
    IF \E i \in 1..Len(sameFile.lines) : sameFile.lines[i] = l.path
    THEN (CHOOSE i \in 1..Len(sameFile.lines) : sameFile.lines[i] = l.path) - 1
    ELSE -1
\* The request has not reset the cursor it got from the cookie.
SameWindow(l) == cookie[l.sid].init /\ cookie[l.sid].pdate = l.sess.pdate

C15_SameDayInOrder ==
    [][/\ \A t \in Threads :
            (Serve(t) /\ ServedPosition(loc[t]) >= 0) =>
              LET l == loc[t] IN
              /\ SameWindow(l) => ServedPosition(l) >= cookie[l.sid].idx
              /\ \/ cookie'[l.sid].idx > ServedPosition(l)
                 \/ cookie'[l.sid].idx = 0 /\ cookie'[l.sid].served = 0
       /\ \A s \in Sessions :
            (cookie[s].init /\ cookie'[s].pdate = cookie[s].pdate) =>
              \/ cookie'[s].idx >= cookie[s].idx
              \/ cookie'[s].idx = 0 /\ cookie'[s].served = 0]_vars

\* The second same-day photo is about to be sent to a session whose previous
\* response left the cursor at position 1.
C15_Witness ==
    \E t \in Threads :
      /\ pc[t] = "serve"
      /\ loc[t].kind = "random"
      /\ SameWindow(loc[t])
      /\ cookie[loc[t].sid].idx = 1
      /\ ServedPosition(loc[t]) = 1

\* ------------------------------------------------------------------------
\* C16.  A session that keeps asking for photos on one day does not stay past
\* the end of a non-empty same-day sequence for ever: once its cursor is past
\* the last same-day line, the first same-day photo is eventually served to
\* it again from position 0.
\* ------------------------------------------------------------------------
PastTheEnd(s) ==
    /\ cacheDate = today
    /\ sameFile.exists
    /\ sameFile.lines # <<>>
    /\ cookie[s].pdate = today
    /\ get_line(sameFile, cookie[s].idx) = NoPath

FirstServedAgain(s) ==
    \E t \in Threads :
      /\ pc[t] = "serve"
      /\ loc[t].sid = s
      /\ loc[t].sess.idx = 1
      /\ loc[t].path = get_line(sameFile, 0)

C16_SequenceReplays == PastTheEnd("s1") ~> FirstServedAgain("s1")

\* ------------------------------------------------------------------------
\* C17.  A miss that writes an entry counts it (the counter goes up by one)
\* and then runs one eviction pass, which starts from the store with the new
\* entry and from the raised counter, before resize_and_compress returns.  A
\* hit and a failed transform leave the counter alone and run no pass.
\* ------------------------------------------------------------------------
C17_MissCountsThenPrunes ==
    [][\A t \in Threads :
          /\ (RcMiss(t) /\ loc[t].kind = "fetch") =>
               LET st == WriteEntry(store, Md5(loc[t].path),
                                    Encode(loc[t].path, loc[t].ov, loc[t].q))
               IN /\ lastPrune'.called
                  /\ lastPrune'.count = cacheCount + 1
                  /\ lastPrune'.before = [i \in 1..Len(st) |-> st[i].key]
                  /\ cacheCount' = lastPrune'.after
                  /\ cacheCount' = cacheCount + 1 - Len(lastPrune'.deleted)
                  /\ pc'[t] = "idle"
                  /\ ret'.status = 200
          /\ RcCheck(t) => (cacheCount' = cacheCount /\ lastPrune' = lastPrune)]_vars

\* A miss has written and counted its entry, and the pass that followed has
\* removed an older one.
C17_Witness ==
    /\ ret.op = "fetch"
    /\ ret.status = 200
    /\ ret.bytes = Encode(ret.path, ret.ov, ret.q)
    /\ lastPrune.called
    /\ lastPrune.ran
    /\ lastPrune.before # <<>>
    /\ lastPrune.before[Len(lastPrune.before)] = Md5(ret.path)
    /\ lastPrune.deleted # <<>>
    /\ Md5(ret.path) \notin SeqRange(lastPrune.deleted)
    /\ cacheCount = lastPrune.after

\* ------------------------------------------------------------------------
\* C18.  When resize_and_compress(path) has returned, the store holds the
\* entry md5(path).jpg and its bytes are the bytes returned.
\* ------------------------------------------------------------------------
\* Worker t's direct call of resize_and_compress returns bytes in this step.
FetchReturns(t) ==
    /\ loc[t].kind = "fetch"
    /\ pc[t] \in {"rc_check", "rc_miss"}
    /\ pc'[t] = "idle"
    /\ ret'.status = 200

EntryHoldsReturned(t) ==
    /\ HasEntry(store', Md5(loc[t].path))
    /\ BytesOf(store', Md5(loc[t].path)) = ret'.bytes

\* As claimed, for every return.
C18_EntryAfterReturn ==
    [][\A t \in Threads : FetchReturns(t) => EntryHoldsReturned(t)]_vars

\* Unless the eviction pass of this very call has removed the entry the call
\* had just written.
C18_EntryAfterReturnUnlessEvicted ==
    [][\A t \in Threads :
          FetchReturns(t) =>
            \/ EntryHoldsReturned(t)
            \/ /\ pc[t] = "rc_miss"
               /\ Md5(loc[t].path) \in SeqRange(lastPrune'.deleted)
               /\ ~HasEntry(store', Md5(loc[t].path))]_vars

\* A miss has returned and its entry, with the bytes returned, is the newest
\* in a store that holds an older entry too.
C18_Witness ==
    /\ ret.op = "fetch"
    /\ ret.status = 200
    /\ ret.bytes = Encode(ret.path, ret.ov, ret.q)
    /\ Len(store) = 2
    /\ store[2] = [key |-> Md5(ret.path), bytes |-> ret.bytes]


\* ------------------------------------------------------------------------
\* C19
\* ------------------------------------------------------------------------
\* The call at its cache check is a miss whose source cannot be opened or
\* decoded.
MissUndecodable(t) ==
    /\ pc[t] = "rc_check"
    /\ ~HasEntry(store, Md5(loc[t].path))
    /\ ~Readable(loc[t].path)

\* The response to GET /random that the recorded client gets next.
Answered(l, status) ==
    (l.sid \in traced /\ Len(log[l.sid]) < MaxLog) =>
        log'[l.sid] = Append(log[l.sid],
                             [url |-> "random", status |-> status, body |-> l.path])

\* C19: on a miss whose source cannot be opened or decoded, the call ends
\* there with the error and no bytes, the store and the live counter are as
\* they were, and GET /random answers 500.
C19_UndecodableRaises ==
    [][\A t \in Threads : (RcCheck(t) /\ MissUndecodable(t)) =>
          LET l == loc[t] IN
          /\ pc'[t] = "idle"
          /\ store' = store
          /\ cacheCount' = cacheCount
          /\ l.kind = "fetch" =>
                (ret'.op = "fetch" /\ ret'.status = 500 /\ ret'.bytes = NoBytes)
          /\ l.kind = "random" => Answered(l, 500)]_vars

\* The client has been answered 500 for the undecodable photo, a direct call
\* for it has raised, and the store has no entry for it.
C19_Witness ==
    /\ \E i \in 1..Len(log["s1"]) :
          log["s1"][i] = [url |-> "random", status |-> 500, body |-> "p4"]
    /\ ret.op = "fetch" /\ ret.status = 500 /\ ret.path = "p4"
    /\ ~HasEntry(store, Md5("p4"))

\* ------------------------------------------------------------------------
\* C20
\* ------------------------------------------------------------------------
\* The write of the miss path lands on an entry that is already in the store.
Rewrites(t) == RcMiss(t) /\ HasEntry(store, Md5(loc[t].path))

\* C20: no miss writes the cache file of an entry that exists, two misses for
\* the same path that run at the same time included.
C20_EntriesWrittenOnce == [][\A t \in Threads : ~Rewrites(t)]_vars

\* ------------------------------------------------------------------------
\* C21
\* ------------------------------------------------------------------------
\* clear_entire_cache runs to its end in this step, called directly or by
\* GET /clear_cache.
ClearReturns(t) ==
    \/ CallClear(t)
    \/ ~building /\ \E s \in Sessions : ClearCache(t, s)

\* C21: when clear_entire_cache has returned, the store is empty, both
\* sequence files are gone, the live counter is 0 and is the number of
\* entries in the store, no key is protected and the index has no date, also
\* when deletions failed.
C21_ClearLeavesNothing ==
    [][\A t \in Threads : ClearReturns(t) =>
          /\ store' = <<>>
          /\ ~allFile'.exists /\ ~sameFile'.exists
          /\ cacheCount' = 0 /\ cacheCount' = Len(store')
          /\ sameDayKeys' = {}
          /\ cacheDate' = NoDate]_vars

\* The part of C21 that is about the process state alone.
ClearResetsGlobals ==
    [][\A t \in Threads : ClearReturns(t) =>
          (cacheCount' = 0 /\ sameDayKeys' = {} /\ cacheDate' = NoDate)]_vars

\* ------------------------------------------------------------------------
\* C22
\* ------------------------------------------------------------------------
\* pick_file's test at line 206 lets the index stand, and no build is under
\* way.
IndexValid == cacheDate = today /\ ~building

\* The keys of the paths that cache_same_day.txt lists.
SameDaySequenceKeys == {Md5(p) : p \in SeqRange(sameFile.lines)}

\* C22: whenever the index is valid, the protected keys are exactly the keys
\* of the paths in the same-day sequence.
C22_ProtectedAreSameDay == IndexValid => sameDayKeys = SameDaySequenceKeys

SecondPrune(t) == CallPrune(t) /\ ret.op = "prune"

\* C24 as stated: the second of two prune_cache() in a row leaves the store
\* and the live counter as the first left them.
C24_PruneTwiceIsPruneOnce ==
    [][\A t \in Threads : SecondPrune(t) =>
          (store' = store /\ cacheCount' = cacheCount)]_vars

\* C24, amended: the second of two prune_cache() in a row removes nothing but
\* entries whose deletion failed in the first, and counts down by what it
\* removes; it leaves the store and the live counter as they were when no
\* deletion failed in the first or every one that failed fails again, also
\* when the first ended above the limit.
C24_SecondPassOnlyRetries ==
    [][\A t \in Threads : SecondPrune(t) =>
          /\ SeqRange(lastPrune'.deleted) \subseteq lastPrune.failed
          /\ store' = Without(store, SeqRange(lastPrune'.deleted))
          /\ cacheCount' = cacheCount - Len(lastPrune'.deleted)
          /\ (lastPrune.failed \subseteq lastPrune'.failed) =>
               (store' = store /\ cacheCount' = cacheCount)]_vars

\* Two prune_cache() in a row: the first ended above the limit with a
\* protected entry and one whose deletion failed both times, and the second
\* left the store and the counter as they were.
C24_Witness ==
    /\ ret.op = "prune" /\ ret.again
    /\ lastPrune.ran
    /\ lastPrune.count > cacheLimit
    /\ lastPrune.after = lastPrune.count
    /\ lastPrune.failed # {}
    /\ SeqRange(lastPrune.before) \cap lastPrune.prot # {}
    /\ cacheCount = lastPrune.count
    /\ [i \in 1..Len(store) |-> store[i].key] = lastPrune.before

\* ------------------------------------------------------------------------
\* C25
\* ------------------------------------------------------------------------
\* A prune_cache() of a direct call runs to its end in this step: called on
\* its own, or at the end of a miss.
PassEnds(t) == CallPrune(t) \/ (RcMiss(t) /\ loc[t].kind = "fetch")

\* C25: in a pass in which deletions failed, the entries that failed are
\* still in the store and were not removed later in the pass, the counter
\* went down by the entries removed only, the pass went on to the younger
\* candidates (it ended within the limit or tried every unprotected entry),
\* and the caller got a normal return.
C25_FailedDeletionIsSkipped ==
    [][\A t \in Threads : (PassEnds(t) /\ lastPrune'.failed # {}) =>
          LET pr == lastPrune' IN
          /\ pr.failed \subseteq StoreKeys(store')
          /\ pr.failed \cap SeqRange(pr.deleted) = {}
          /\ Len(pr.deleted) = Cardinality(SeqRange(pr.deleted))
          /\ cacheCount' = pr.count - Len(pr.deleted)
          /\ cacheCount' > cacheLimit =>
               Unprotected(pr) = pr.failed \cup SeqRange(pr.deleted)
          /\ pc'[t] = "idle"
          /\ ret'.status = 200]_vars

\* A prune_cache() whose first candidate could not be deleted removed a
\* younger one, and the one that failed is still in the store.
C25_Witness ==
    /\ ret.op = "prune" /\ ret.status = 200
    /\ lastPrune.ran
    /\ \E i, j \in 1..Len(lastPrune.before) :
          /\ i < j
          /\ lastPrune.before[i] \in lastPrune.failed
          /\ lastPrune.before[j] \in SeqRange(lastPrune.deleted)
    /\ lastPrune.failed \subseteq StoreKeys(store)
    /\ cacheCount = lastPrune.count - Len(lastPrune.deleted)

\* ------------------------------------------------------------------------
\* C26
\* ------------------------------------------------------------------------
\* The dates that 8 contiguous digits, resp. a hyphenated group, of the name
\* spell at position i.
PlainDateAt(s, i) == DateOfGroups(IntAt(s, i, 4), IntAt(s, i + 4, 2), IntAt(s, i + 6, 2))
HyphenDateAt(s, i) == DateOfGroups(IntAt(s, i, 4), IntAt(s, i + 5, 2), IntAt(s, i + 8, 2))
\* The valid dates the name contains as 8 contiguous digits.
PlainDatesIn(s) == {PlainDateAt(s, i) : i \in MatchesPlain(s)} \ {None}
\* The date of the leftmost match of each pattern, None without a match or
\* when the match is no date.
FirstPlainDate(s) ==
    IF MatchesPlain(s) = {} THEN None ELSE PlainDateAt(s, Leftmost(MatchesPlain(s)))
FirstHyphenDate(s) ==
    IF MatchesHyphen(s) = {} THEN None ELSE HyphenDateAt(s, Leftmost(MatchesHyphen(s)))

\* C26 as stated: a file whose base name contains 8 contiguous digits that
\* are a valid date resolves to such a date, whatever its metadata and its
\* modification time; failing that, a valid hyphenated date in the name is
\* what it resolves to.
C26_NameDateFirst ==
    (resolved # Pending) =>
        /\ PlainDatesIn(photo.name) # {} =>
              (resolved.exc = "none" /\ resolved.value \in PlainDatesIn(photo.name))
        /\ (PlainDatesIn(photo.name) = {} /\ FirstHyphenDate(photo.name) # None) =>
              resolved = Returns(FirstHyphenDate(photo.name))

\* C26, amended: a file whose leftmost 8 contiguous digits are a valid date
\* resolves to that date, whatever its metadata and its modification time;
\* when they are not (or there are none), the leftmost hyphenated match is
\* tried, and when it is a valid date the file resolves to it, before
\* metadata or modification time are looked at.
C26_LeftmostNameDateFirst ==
    (resolved # Pending) =>
        /\ FirstPlainDate(photo.name) # None =>
              resolved = Returns(FirstPlainDate(photo.name))
        /\ (FirstPlainDate(photo.name) = None /\ FirstHyphenDate(photo.name) # None) =>
              resolved = Returns(FirstHyphenDate(photo.name))

\* A file named 20240115x whose metadata carries a parseable taken time and
\* whose modification time is readable has resolved to 2024-01-15.
C26_Witness ==
    /\ photo.name = Chars("2", "0", "2", "4") \o Chars("0", "1", "1", "5") \o <<"x">>
    /\ photo.opens
    /\ photo.exif = <<[tag |-> "DateTimeOriginal", text |-> TRUE,
                       date |-> TagDate("DateTimeOriginal")]>>
    /\ photo.mtime # None
    /\ resolved = Returns(Date(2024, 1, 15))

\* ------------------------------------------------------------------------
\* C27
\* ------------------------------------------------------------------------
\* C27: get_photo_date ends with a date or None for every file, never with
\* an exception.
C27_ResolverNeverRaises == resolved.exc \in {"pending", "none"}

\* The part of C27 that is about the files that cannot be opened or decoded
\* and the modification times that cannot be read: these end with a date or
\* None.
UnopenableResolves ==
    (resolved # Pending /\ ~photo.opens) =>
        /\ resolved.exc = "none"
        /\ (parse_date_from_filename(photo.name) = None /\ photo.mtime = None)
              => resolved.value = None

\* ------------------------------------------------------------------------
\* C28
\* ------------------------------------------------------------------------
\* The file gives key k inside section s, and s is a dict in the file.
FileGives(s, k) ==
    /\ configFile.exists
    /\ configFile.top = "mapping"
    /\ s \in DOMAIN configFile.sections
    /\ configFile.sections[s].isdict
    /\ k \in DOMAIN configFile.sections[s].items

\* The configuration returned has the sections and keys of DEFAULT_CONFIG,
\* with the file's value where the file gives the key and the default
\* elsewhere, and DEFAULT_CONFIG is as it was.
MergedOverDefaults ==
    /\ loaded.exc = "none"
    /\ DOMAIN loaded.value = DOMAIN DEFAULT_CONFIG
    /\ \A s \in DOMAIN DEFAULT_CONFIG :
          /\ DOMAIN loaded.value[s] = DOMAIN DEFAULT_CONFIG[s]
          /\ \A k \in DOMAIN DEFAULT_CONFIG[s] :
                loaded.value[s][k] = IF FileGives(s, k)
                                     THEN configFile.sections[s].items[k]
                                     ELSE DEFAULT_CONFIG[s][k]
    /\ defaults = DEFAULT_CONFIG

AgeRank(pr, k) == CHOOSE i \in 1..Len(pr.before) : pr.before[i] = k

\* C29: a pass removes entries from the oldest on: what it removed is in
\* ascending order of modification time, every unprotected entry older than a
\* removed one was removed or tried before it, and the last removal took place
\* with the counter still above the limit, so the counter never goes below
\* the limit by a removal.
C29_OldestFirstUntilWithinLimit ==
    [][\A t \in Threads : PassEnds(t) =>
          LET pr == lastPrune' IN
          /\ \A i, j \in 1..Len(pr.deleted) :
                i < j => AgeRank(pr, pr.deleted[i]) < AgeRank(pr, pr.deleted[j])
          /\ \A k \in SeqRange(pr.deleted) : \A o \in Unprotected(pr) :
                AgeRank(pr, o) < AgeRank(pr, k) => o \in SeqRange(pr.deleted) \cup pr.failed
          /\ \A k \in pr.failed : \A o \in Unprotected(pr) :
                AgeRank(pr, o) < AgeRank(pr, k) => o \in SeqRange(pr.deleted) \cup pr.failed
          /\ pr.deleted # <<>> => pr.count - Len(pr.deleted) >= cacheLimit
          /\ pr.count <= cacheLimit => (pr.deleted = <<>> /\ pr.failed = {})
          /\ cacheCount' = pr.count - Len(pr.deleted)
          /\ store' = Without(IF CallPrune(t) THEN store
                              ELSE WriteEntry(store, Md5(loc[t].path),
                                              Encode(loc[t].path, loc[t].ov, loc[t].q)),
                              SeqRange(pr.deleted))]_vars

\* A pass met three entries with the counter one above the limit, removed
\* the oldest, which was unprotected, and stopped: the two younger ones, one
\* of them unprotected, are still in the store.
C29_Witness ==
    /\ lastPrune.ran
    /\ Len(lastPrune.before) = 3
    /\ lastPrune.count = cacheLimit + 1
    /\ lastPrune.deleted = <<lastPrune.before[1]>>
    /\ lastPrune.failed = {}
    /\ \E i \in 2..3 : lastPrune.before[i] \notin lastPrune.prot
    /\ [i \in 1..Len(store) |-> store[i].key] = <<lastPrune.before[2], lastPrune.before[3]>>
    /\ cacheCount = cacheLimit

\* ------------------------------------------------------------------------
\* C30
\* ------------------------------------------------------------------------
\* The date of tag in the metadata, None when the tag is absent or its value
\* does not parse.
FieldDate(items, tag) ==
    IF \E i \in 1..Len(items) : items[i].tag = tag /\ items[i].text /\ items[i].date # None
    THEN (CHOOSE it \in SeqRange(items) : it.tag = tag).date
    ELSE None

\* The first date in the order taken, digitized, generic.
PreferredDate(items) ==
    IF FieldDate(items, "DateTimeOriginal") # None THEN FieldDate(items, "DateTimeOriginal")
    ELSE IF FieldDate(items, "DateTimeDigitized") # None
    THEN FieldDate(items, "DateTimeDigitized")
    ELSE FieldDate(items, "DateTime")

\* Every value of the metadata is a string.
AllText(items) == \A i \in 1..Len(items) : items[i].text

\* C30: when the name yields no date and the file opens, the resolver
\* returns the date of the first field present and parseable in the order
\* taken, digitized, generic, in whatever order the fields are stored.
C30_TakenDigitizedGeneric ==
    ( /\ resolved # Pending
      /\ parse_date_from_filename(photo.name) = None
      /\ photo.opens
      /\ AllText(photo.exif)
      /\ PreferredDate(photo.exif) # None )
    => resolved = Returns(PreferredDate(photo.exif))

\* The part of C30 that does not depend on the order: with at most one
\* parseable field, that field's date is returned.
SingleFieldWins ==
    ( /\ resolved # Pending
      /\ parse_date_from_filename(photo.name) = None
      /\ photo.opens
      /\ AllText(photo.exif)
      /\ Cardinality({t \in DateTags : FieldDate(photo.exif, t) # None}) = 1 )
    => resolved = Returns(PreferredDate(photo.exif))

\* ------------------------------------------------------------------------
\* C31
\* ------------------------------------------------------------------------
\* The directory name holds an ignore name, whatever the case.
DirIgnored(d) == \E ign \in ignore_dirs : IsIn(ign, Lower(d))

\* C31: a supported photo is indexed exactly when none of the directories
\* between base_dir and the file has a name that holds an ignore name; the
\* path of base_dir has no say.
C31_IndexedIffNoIgnoredDir ==
    (indexed # "pending" /\ IsSupported(found.file)) =>
        (indexed = "yes" <=> \A i \in 1..Len(found.dirs) : ~DirIgnored(found.dirs[i]))

\* What holds instead: a supported photo is indexed exactly when no ignore
\* name occurs in the path of base_dir nor in the name of a directory below
\* it.
IndexedIffRootClean ==
    (indexed # "pending" /\ IsSupported(found.file)) =>
        (indexed = "yes" <=>
            /\ ~DirIgnored(found.base)
            /\ \A i \in 1..Len(found.dirs) : ~DirIgnored(found.dirs[i]))


\* ------------------------------------------------------------------------
\* C32.  The live entry counter equals the number of derived-image entries on
\* disk in every reachable state, from process start on: after every sequence
\* of misses, hits, eviction passes, failed deletions and clear_all calls.
\* ------------------------------------------------------------------------
C32_CounterIsEntryCount == cacheCount = Len(store)


\* ------------------------------------------------------------------------
\* C33.  A selection returns no path (the route answers 404) only when the
\* index holds no photo: if cache_same_day.txt or cache_all.txt has a line,
\* the selection of every session returns a path, wherever its cursor is.
\* ------------------------------------------------------------------------
IndexHoldsPhoto == count_lines(sameFile) > 0 \/ count_lines(allFile) > 0

C33_NoneOnlyWhenIndexEmpty ==
    [][\A t \in Threads :
          (Select(t) /\ IndexHoldsPhoto) =>
            /\ pc'[t] = "rc_check"
            /\ loc'[t].path # NoPath]_vars


\* ------------------------------------------------------------------------
\* C34.  When the transform of a selected same-day photo fails (the route
\* answers 500), the session's cursor is saved one past that photo's position
\* in cache_same_day.txt and its served count is what it was before the
\* request: on its next request the session reads the line after the failing
\* photo, not the failing photo again.
\* ------------------------------------------------------------------------
\* Worker t's transform of the same-day photo it selected fails in this step.
TransformFails(t) ==
    /\ RcCheck(t)
    /\ loc[t].kind = "random"
    /\ pc'[t] = "idle"
    /\ ServedPosition(loc[t]) >= 0

C34_FailedPhotoIsSkipped ==
    [][\A t \in Threads :
          TransformFails(t) =>
            LET s == loc[t].sid IN
            /\ cookie'[s].idx = ServedPosition(loc[t]) + 1
            /\ cookie'[s].pdate = loc[t].today
            /\ cookie'[s].served = cookie[s].served
            /\ get_line(sameFile', cookie'[s].idx) # loc[t].path]_vars

\* The session has been answered 500 for the same-day photo p5 and its
\* cursor stands past p5 with nothing counted as served.
C34_Witness ==
    /\ \E t \in Threads : pc[t] = "idle"
    /\ \E i \in 1..Len(sameFile.lines) :
         /\ sameFile.lines[i] = "p5"
         /\ cookie["s1"].idx = i
         /\ cookie["s1"].pdate = today
         /\ cookie["s1"].served = 0
         /\ cacheDate = today
         /\ ~HasEntry(store, "h5")


\* ------------------------------------------------------------------------
\* C35.  Cursor updates of one session are not lost: two requests of one
\* session that are being handled at the same time have never both been
\* given the same position of the same-day sequence.
\* ------------------------------------------------------------------------
\* Worker t's request has read its photo from cache_same_day.txt and holds
\* the cursor one past that line.
GotPosition(t) ==
    /\ pc[t] \in {"rc_check", "rc_miss", "serve"}
    /\ loc[t].kind = "random"
    /\ ServedPosition(loc[t]) >= 0
    /\ loc[t].sess.idx = ServedPosition(loc[t]) + 1

C35_CursorUpdatesNotLost ==
    \A t1, t2 \in Threads :
      ( /\ t1 # t2
        /\ GotPosition(t1)
        /\ GotPosition(t2)
        /\ loc[t1].sid = loc[t2].sid
        /\ loc[t1].sess.pdate = loc[t2].sess.pdate )
      => loc[t1].sess.idx # loc[t2].sess.idx


\* ------------------------------------------------------------------------
\* C36.  Whenever CACHE_DATE equals today, both sequence files hold the
\* complete partition of the collection that a finished build for today
\* wrote, and no build is still writing them; and BUILDING_CACHE is never
\* False while a build is running.
\* ------------------------------------------------------------------------
CompleteFor(day) ==
    /\ sameFile.exists
    /\ allFile.exists
    /\ sameFile.lines = SameSeq(walk, day)
    /\ allFile.lines = AllSeq(walk, day)

C36_DatedIndexIsComplete ==
    /\ cacheDate = today => (CompleteFor(today) /\ Builders = {})
    /\ Builders # {} => building


\* ------------------------------------------------------------------------
\* C37.  No eviction pass, whether prune_cache is called on its own or at
\* the end of a miss, removes the entry of a photo of the collection that is
\* a same-day photo today: not at process start before the first build, not
\* while a build is refilling SAME_DAY_KEYS, not after a day change.
\* ------------------------------------------------------------------------
\* The keys of the photos of the collection that are same-day photos today.
TodaysSameDayKeys == {Md5(walk[i]) : i \in {j \in 1..Len(walk) : IsSameDay(walk[j], today)}}

C37_SameDayEntryNeverEvicted ==
    [][\A t \in Threads :
          (CallPrune(t) \/ RcMiss(t)) =>
            \A k \in TodaysSameDayKeys : HasEntry(store, k) => HasEntry(store', k)]_vars
====
